---- MODULE Spec2Model ----
(***************************************************************************)
(* Model of utils/service_discovery/abstract_config_store.py:              *)
(* AbstractConfigStore (template resolution with auto-configuration        *)
(* fallback, change detection against the backend's config index) and      *)
(* StubStore.                                                              *)
(***************************************************************************)
EXTENDS Integers, Sequences, FiniteSets, TLC

\* ------------------------------------------------------------------ bounds

\* The backend's config index ranges over 1..MaxIndex.
MaxIndex == 2
\* A backend array (check_names, init_configs, instances) has 0..MaxLen entries.
MaxLen == 2

\* ------------------------------------------------------- program constants

CONFIG_FROM_AUTOCONF == "auto-configuration"
CONFIG_FROM_TEMPLATE == "template"

\* Python's None as the value of previous_config_index; no index equals it.
NoIndex == 0

Indexes == 1..MaxIndex

\* ------------------------------------------------------------ state

VARIABLES
    store,                  \* the class of the singleton instance: "backend" or "stub"
    previous_config_index,  \* AbstractConfigStore.previous_config_index
    backend_index,          \* the index the backend holds for the template directory
    last_read,              \* history: index returned by the last successful read of this instance
    op,                     \* the operation that produced this state
    crawl_call,             \* crawl_config_template: the read's outcome and the state it started in
                            \* (after_failed: the call before it was a crawl whose read failed)
    crawl_ret,              \* crawl_config_template: "True", "False", "raise", or "-" when not called
    tpls_call,              \* get_check_tpls: its arguments and the reads' outcomes
    tpls_ret                \* get_check_tpls: what it returned and which collaborators it called

vars == <<store, previous_config_index, backend_index, last_read, op,
          crawl_call, crawl_ret, tpls_call, tpls_ret>>

\* ------------------------------------------------- crawl_config_template

\* The outcomes of client_read(sd_template_dir, recursive=True, watch=True).
CrawlReadKinds == {"ok", "KeyNotFound", "TimeoutError", "OtherError"}

\* client_read of the instance's class: AbstractConfigStore.client_read raises
\* NotImplementedError and StubStore does not override it; a backend store
\* answers with the outcome the backend produces.
client_read_stub(cls, outcome) ==
    IF cls = "stub" THEN "KeyNotFound" ELSE outcome

client_read(cls, outcome) ==
    IF cls = "stub" THEN "NotImplementedError" ELSE outcome

\* What crawl_config_template returns ("raise": an exception leaves it).
crawl_ret_swallow_timeout(prev, kind, config_index) ==
    IF kind \in {"KeyNotFound", "TimeoutError"} THEN "False"
    ELSE IF kind # "ok" THEN "raise"
    ELSE IF prev = NoIndex THEN "False"
    ELSE IF config_index # prev THEN "True"
    ELSE "False"

crawl_ret_knf_raises(prev, kind, config_index) ==
    IF kind # "ok" THEN "raise"
    ELSE IF prev = NoIndex THEN "False"
    ELSE IF config_index # prev THEN "True"
    ELSE "False"

crawl_ret_no_baseline(prev, kind, config_index) ==
    IF kind = "KeyNotFound" THEN "False"
    ELSE IF kind # "ok" THEN "raise"
    ELSE IF config_index # prev THEN "True"
    ELSE "False"

crawl_ret_always_reload(prev, kind, config_index) ==
    IF kind = "KeyNotFound" THEN "False"
    ELSE IF kind # "ok" THEN "raise"
    ELSE IF prev = NoIndex THEN "False"
    ELSE "True"

crawl_config_template_ret(prev, kind, config_index) ==
    IF kind = "KeyNotFound" THEN "False"
    ELSE IF kind # "ok" THEN "raise"
    ELSE IF prev = NoIndex THEN "False"
    ELSE IF config_index # prev THEN "True"
    ELSE "False"

\* The value of previous_config_index when crawl_config_template is left.
crawl_index_not_updated(prev, kind, config_index) ==
    IF kind = "ok" /\ prev = NoIndex THEN config_index ELSE prev

crawl_index_reset_on_knf(prev, kind, config_index) ==
    IF kind = "KeyNotFound" THEN NoIndex
    ELSE IF kind # "ok" THEN prev
    ELSE config_index

crawl_index_reset_on_timeout(prev, kind, config_index) ==
    IF kind = "TimeoutError" THEN NoIndex
    ELSE IF kind # "ok" THEN prev
    ELSE config_index

crawl_config_template_index(prev, kind, config_index) ==
    IF kind # "ok" THEN prev
    ELSE IF prev = NoIndex THEN config_index
    ELSE IF config_index # prev THEN config_index
    ELSE prev

NoCrawl == [kind |-> "-", config_index |-> NoIndex, prev |-> NoIndex, last_read |-> NoIndex,
            after_failed |-> FALSE]
NoTpls  == [image |-> "-", auto_conf |-> FALSE, trace_config |-> FALSE, reads |-> <<>>]
NoTplsRet == [raised |-> FALSE, absent |-> TRUE, templates |-> <<>>, reads |-> 0, lookups |-> 0]

\* History: the state was produced by a crawl whose read raised KeyNotFound
\* or TimeoutError.
FailedCrawl == op = "crawl" /\ crawl_call.kind \in {"KeyNotFound", "TimeoutError"}

\* AbstractConfigStore.crawl_config_template on a backend store.
Crawl ==
    /\ store = "backend"
    /\ \E kind \in CrawlReadKinds :
         LET config_index == IF kind = "ok" THEN backend_index ELSE NoIndex IN
         /\ crawl_call' = [kind |-> kind, config_index |-> config_index,
                           prev |-> previous_config_index, last_read |-> last_read,
                           after_failed |-> FailedCrawl]
         /\ crawl_ret' = crawl_config_template_ret(previous_config_index, kind, config_index)
         /\ previous_config_index' =
                crawl_config_template_index(previous_config_index, kind, config_index)
         /\ last_read' = IF kind = "ok" THEN config_index ELSE last_read
    /\ op' = "crawl"
    /\ tpls_call' = NoTpls
    /\ tpls_ret' = NoTplsRet
    /\ UNCHANGED <<store, backend_index>>

\* StubStore.crawl_config_template: no read, always False.
StubCrawl ==
    /\ store = "stub"
    /\ crawl_call' = [NoCrawl EXCEPT !.prev = previous_config_index, !.last_read = last_read]
    /\ crawl_ret' = "False"
    /\ op' = "crawl"
    /\ tpls_call' = NoTpls
    /\ tpls_ret' = NoTplsRet
    /\ UNCHANGED <<store, previous_config_index, backend_index, last_read>>

\* The backend's template directory is modified: its index becomes another one.
BackendChange ==
    /\ \E i \in Indexes \ {backend_index} : backend_index' = i
    /\ op' = "backend_change"
    /\ crawl_call' = NoCrawl
    /\ crawl_ret' = "-"
    /\ tpls_call' = NoTpls
    /\ tpls_ret' = NoTplsRet
    /\ UNCHANGED <<store, previous_config_index, last_read>>

\* _drop followed by the construction of a new instance (of either class):
\* the new instance has no previous_config_index of its own and reads the
\* class attribute, None.
Recreate ==
    /\ \E cls \in {"backend", "stub"} : store' = cls
    /\ previous_config_index' = NoIndex
    /\ last_read' = NoIndex
    /\ op' = "construct"
    /\ crawl_call' = NoCrawl
    /\ crawl_ret' = "-"
    /\ tpls_call' = NoTpls
    /\ tpls_ret' = NoTplsRet
    /\ UNCHANGED backend_index

\* ----------------------------------------------------- auto-configuration

\* agentConfig's image -> check name mapping (get_auto_conf_images): "custom"
\* is an image without an entry.
Images == {"redis", "nginx", "bare", "ghost", "custom"}

AUTO_CONF_IMAGES ==
    [redis |-> "redisdb", nginx |-> "nginx", bare |-> "barecheck", ghost |-> "ghostcheck"]

\* Structured auto_conf data: a value is None or a dict of string pairs.
JNull == [t |-> "null", kv |-> <<>>]
JDict(kv) == [t |-> "dict", kv |-> kv]

\* get_check_class(agentConfig, check_name) is None for a check whose class
\* cannot be loaded.
get_check_class_found(check_name) == check_name # "ghostcheck"

\* get_auto_conf(agentConfig, check_name): the check's auto_conf file, with
\* init_config and instances as auto_conf.get() sees them (None when missing).
get_auto_conf(check_name) ==
    CASE check_name = "redisdb" ->
           [init_config |-> JNull,
            has_instances |-> TRUE,
            instances |-> <<JDict(<<<<"host", "localhost">>>>)>>]
      [] check_name = "nginx" ->
           [init_config |-> JDict(<<<<"tag", "web">>>>),
            has_instances |-> TRUE,
            instances |-> <<JDict(<<<<"host", "a">>, <<"port", "80">>>>), JDict(<<<<"host", "b">>>>)>>]
      [] check_name = "barecheck" ->
           [init_config |-> JDict(<<>>),
            has_instances |-> TRUE,
            instances |-> <<>>]
      [] OTHER ->
           [init_config |-> JNull, has_instances |-> FALSE, instances |-> <<>>]

\* json.dumps of a dict of string pairs, or of None.
RECURSIVE dumps_pairs(_)
dumps_pairs(kv) ==
    IF kv = <<>> THEN ""
    ELSE "\"" \o kv[1][1] \o "\": \"" \o kv[1][2] \o "\""
         \o (IF Len(kv) > 1 THEN ", " \o dumps_pairs(Tail(kv)) ELSE "")

json_dumps(j) ==
    IF j.t = "null" THEN "null" ELSE "{" \o dumps_pairs(j.kv) \o "}"

\* Python truth of a value: None and the empty dict are false.
truthy(j) == j.t = "dict" /\ Len(j.kv) > 0

NoAutoConfig == [none |-> TRUE, tpl |-> <<>>]

get_auto_config_by_image_name(image_name) ==
    IF image_name \in DOMAIN AUTO_CONF_IMAGES THEN
        IF ~get_check_class_found(AUTO_CONF_IMAGES[image_name]) THEN NoAutoConfig
        ELSE [none |-> FALSE, tpl |-> <<AUTO_CONF_IMAGES[image_name], "{}", "{}">>]
    ELSE [none |-> FALSE, tpl |-> <<image_name, "{}", "{}">>]

\* AbstractConfigStore._get_auto_config.
get_auto_config(image_name) ==
    IF image_name \in DOMAIN AUTO_CONF_IMAGES THEN
        LET check_name == AUTO_CONF_IMAGES[image_name]
            auto_conf == get_auto_conf(check_name)
            init_config_tpl ==
                IF truthy(auto_conf.init_config)
                THEN json_dumps(auto_conf.init_config) ELSE "{}"
            instance_tpl ==
                IF auto_conf.has_instances /\ Len(auto_conf.instances) > 0
                THEN json_dumps(auto_conf.instances[1]) ELSE "{}"
        IN  IF ~get_check_class_found(check_name) THEN NoAutoConfig
            ELSE [none |-> FALSE, tpl |-> <<check_name, init_config_tpl, instance_tpl>>]
    ELSE NoAutoConfig

\* --------------------------------------------------------- get_check_tpls

\* The array the backend holds under a key of an image's directory: n
\* entries, all different.
backend_array(key, n) == [i \in 1..n |-> key \o "[" \o ToString(i) \o "]"]

TplsReadFailures == {"KeyNotFound", "TimeoutError", "OtherError"}

ReadOk(n) == [kind |-> "ok", len |-> n]
ReadFails(kind) == [kind |-> kind, len |-> 0]

\* What the backend answers to the reads of one get_check_tpls call, up to
\* and including the first read that fails (the reads before a failing one
\* return one entry each).
ReadScripts ==
    { <<ReadOk(a), ReadOk(b), ReadOk(c)>> : a \in 0..MaxLen, b \in 0..MaxLen, c \in 0..MaxLen }
    \cup { <<ReadOk(1), ReadOk(1), ReadFails(k)>> : k \in TplsReadFailures }
    \cup { <<ReadOk(1), ReadFails(k)>> : k \in TplsReadFailures }
    \cup { <<ReadFails(k)>> : k \in TplsReadFailures }

\* What the backend would answer to a call that asks for auto_conf only.
ProbeScripts ==
    { <<ReadOk(1), ReadOk(1), ReadOk(1)>> } \cup { <<ReadFails(k)>> : k \in TplsReadFailures }

\* A StubStore has no client to answer.
StubScripts == { <<ReadFails("NoClient")>> }

\* The first of the three reads that raises, 0 when all succeed.
first_failure(cls, reads) ==
    IF client_read(cls, reads[1].kind) # "ok" THEN 1
    ELSE IF client_read(cls, reads[2].kind) # "ok" THEN 2
    ELSE IF client_read(cls, reads[3].kind) # "ok" THEN 3
    ELSE 0

\* The except clause that handles an exception raised in the try block:
\* "autoconf" for (KeyNotFound, TimeoutError), "abort" for any other Exception
\* ("propagate": no clause handles it).
except_clause_no_catch_all(kind) ==
    IF kind \in {"KeyNotFound", "TimeoutError"} THEN "autoconf" ELSE "propagate"

except_clause_knf_only(kind) ==
    IF kind = "KeyNotFound" THEN "autoconf" ELSE "abort"

except_clause_catch_all(kind) == "autoconf"

except_clause(kind) ==
    IF kind \in {"KeyNotFound", "TimeoutError"} THEN "autoconf" ELSE "abort"

\* The test of line 119: the three lists are not all the same length.
malformed_shorter_only(check_names, init_config_tpls, instance_tpls) ==
    \/ Len(check_names) > Len(init_config_tpls)
    \/ Len(check_names) > Len(instance_tpls)

malformed(check_names, init_config_tpls, instance_tpls) ==
    \/ Len(check_names) # Len(init_config_tpls)
    \/ Len(check_names) # Len(instance_tpls)

\* The loop of lines 125-130.
build_templates_first_instance(source, trace_config, check_names, init_config_tpls, instance_tpls) ==
    [idx \in 1..Len(check_names) |->
        IF trace_config
        THEN <<source, <<check_names[idx], init_config_tpls[idx], instance_tpls[1]>>>>
        ELSE <<check_names[idx], init_config_tpls[idx], instance_tpls[1]>>]

build_templates(source, trace_config, check_names, init_config_tpls, instance_tpls) ==
    [idx \in 1..Len(check_names) |->
        IF trace_config
        THEN <<source, <<check_names[idx], init_config_tpls[idx], instance_tpls[idx]>>>>
        ELSE <<check_names[idx], init_config_tpls[idx], instance_tpls[idx]>>]

ReturnsNone(reads, lookups) ==
    [raised |-> FALSE, absent |-> TRUE, templates |-> <<>>, reads |-> reads, lookups |-> lookups]

Returns(templates, reads, lookups) ==
    [raised |-> FALSE, absent |-> FALSE, templates |-> templates, reads |-> reads, lookups |-> lookups]

\* An exception no except clause handles leaves get_check_tpls: nothing is
\* returned.
Raises(reads, lookups) ==
    [raised |-> TRUE, absent |-> FALSE, templates |-> <<>>, reads |-> reads, lookups |-> lookups]

\* Lines 119-130: validation and the construction of the list.
validate_and_build(source, trace_config, check_names, init_config_tpls, instance_tpls, reads, lookups) ==
    IF malformed(check_names, init_config_tpls, instance_tpls)
    THEN ReturnsNone(reads, lookups)
    ELSE Returns(build_templates(source, trace_config, check_names, init_config_tpls, instance_tpls),
                 reads, lookups)

\* Line 109: check_names, init_config_tpls and instance_tpls after the
\* fallback, when read number `failed` raised and the reads before it had
\* already bound their variables: all three are rebound to one-element lists
\* made from the auto-configuration template.
lists_keep_values_read(auto_config_tpl, reads, failed) ==
    << IF failed > 1 THEN backend_array("check_names", reads[1].len) ELSE <<auto_config_tpl[1]>>,
       IF failed > 2 THEN backend_array("init_configs", reads[2].len) ELSE <<auto_config_tpl[2]>>,
       <<auto_config_tpl[3]>> >>

lists_after_fallback(auto_config_tpl, reads, failed) ==
    << <<auto_config_tpl[1]>>, <<auto_config_tpl[2]>>, <<auto_config_tpl[3]>> >>

\* The test of line 84: kwargs.get('auto_conf') is True.
auto_conf_ignored(auto_conf) == FALSE

auto_conf_only(auto_conf) == auto_conf = TRUE

\* AbstractConfigStore.get_check_tpls(image, auto_conf=..., trace_config=...)
\* on an instance of class cls; reads are the backend's answers.  The result
\* records the value returned and the number of client_read and
\* _get_auto_config calls made.
get_check_tpls(cls, image, auto_conf, trace_config, reads) ==
    IF auto_conf_only(auto_conf) THEN
        LET auto_config == get_auto_config(image) IN
        IF ~auto_config.none
        THEN Returns(<<IF trace_config THEN <<CONFIG_FROM_AUTOCONF, auto_config.tpl>>
                                       ELSE auto_config.tpl>>, 0, 1)
        ELSE ReturnsNone(0, 1)
    ELSE
        LET failed == first_failure(cls, reads) IN
        IF failed = 0 THEN
            validate_and_build(CONFIG_FROM_TEMPLATE, trace_config,
                               backend_array("check_names", reads[1].len),
                               backend_array("init_configs", reads[2].len),
                               backend_array("instances", reads[3].len), 3, 0)
        ELSE IF except_clause(client_read(cls, reads[failed].kind)) = "autoconf" THEN
            LET auto_config == get_auto_config(image) IN
            IF ~auto_config.none
            THEN LET lists == lists_after_fallback(auto_config.tpl, reads, failed) IN
                 validate_and_build(CONFIG_FROM_AUTOCONF, trace_config,
                                    lists[1], lists[2], lists[3], failed, 1)
            ELSE ReturnsNone(failed, 1)
        ELSE IF except_clause(client_read(cls, reads[failed].kind)) = "abort" THEN
            ReturnsNone(failed, 0)
        ELSE Raises(failed, 0)

GetCheckTpls_resets_index ==
    /\ \E image \in Images, auto_conf \in BOOLEAN, trace_config \in BOOLEAN :
         \E reads \in (IF store = "stub" THEN StubScripts
                       ELSE IF auto_conf THEN ProbeScripts ELSE ReadScripts) :
            /\ tpls_call' = [image |-> image, auto_conf |-> auto_conf,
                             trace_config |-> trace_config, reads |-> reads]
            /\ tpls_ret' = get_check_tpls(store, image, auto_conf, trace_config, reads)
    /\ op' = "tpls"
    /\ crawl_call' = NoCrawl
    /\ crawl_ret' = "-"
    /\ previous_config_index' = NoIndex
    /\ UNCHANGED <<store, backend_index, last_read>>

\* A call of get_check_tpls on the current instance.
GetCheckTpls ==
    /\ \E image \in Images, auto_conf \in BOOLEAN, trace_config \in BOOLEAN :
         \E reads \in (IF store = "stub" THEN StubScripts
                       ELSE IF auto_conf THEN ProbeScripts ELSE ReadScripts) :
            /\ tpls_call' = [image |-> image, auto_conf |-> auto_conf,
                             trace_config |-> trace_config, reads |-> reads]
            /\ tpls_ret' = get_check_tpls(store, image, auto_conf, trace_config, reads)
    /\ op' = "tpls"
    /\ crawl_call' = NoCrawl
    /\ crawl_ret' = "-"
    /\ UNCHANGED <<store, previous_config_index, backend_index, last_read>>

Init ==
    /\ store \in {"backend", "stub"}
    /\ previous_config_index = NoIndex
    /\ backend_index \in Indexes
    /\ last_read = NoIndex
    /\ op = "construct"
    /\ crawl_call = NoCrawl
    /\ crawl_ret = "-"
    /\ tpls_call = NoTpls
    /\ tpls_ret = NoTplsRet

Next == Crawl \/ StubCrawl \/ GetCheckTpls \/ BackendChange \/ Recreate

Spec == Init /\ [][Next]_vars

\* ------------------------------------------------------------ properties

\* The state was produced by crawl_config_template on a backend store.
Crawled == op = "crawl" /\ store = "backend"

\* The state was produced by get_check_tpls reading a backend store's
\* templates (auto_conf not passed).
ReadTemplates == op = "tpls" /\ store = "backend" /\ ~tpls_call.auto_conf

\* The failure that ended the reads of the last get_check_tpls call, "ok"
\* when all three succeeded.
LastReadKind == tpls_call.reads[Len(tpls_call.reads)].kind

\* A template as it appears in the returned list.
Traced(source, tpl) == IF tpls_call.trace_config THEN <<source, tpl>> ELSE tpl

\* C1: in any sequence of crawls, a crawl returns True exactly when its read
\* succeeds with an index that differs from the index the previous successful
\* read returned: a change of the backend's index is reported by the first
\* crawl that reads it, once, and every other crawl that returns, returns
\* False until the index read differs again.
C1_ChangeReportedOnce ==
    Crawled =>
        (crawl_ret = "True") <=>
            /\ crawl_call.kind = "ok"
            /\ crawl_call.last_read # NoIndex
            /\ crawl_call.config_index # crawl_call.last_read

C1_Witness ==
    /\ Crawled
    /\ crawl_call.kind = "ok"
    /\ crawl_call.last_read # NoIndex
    /\ crawl_call.config_index # crawl_call.last_read
    /\ crawl_ret = "True"

\* C2: on an instance without a stored index, a crawl returns False whatever
\* the backend holds (an index, or no template directory at all), and when
\* the read succeeds the index read is stored.
C2_FirstCrawlIsBaseline ==
    (op = "crawl" /\ crawl_call.prev = NoIndex /\ crawl_call.kind \in {"ok", "KeyNotFound", "-"}) =>
        /\ crawl_ret = "False"
        /\ crawl_call.kind = "ok" => previous_config_index = crawl_call.config_index
        /\ crawl_call.kind = "ok" => previous_config_index = backend_index

C2_Witness ==
    /\ Crawled
    /\ crawl_call.prev = NoIndex
    /\ crawl_call.kind = "ok"
    /\ crawl_ret = "False"
    /\ previous_config_index = backend_index
    /\ previous_config_index # NoIndex

\* C3: while the backend's index is the one the previous successful read
\* returned, no crawl modifies previous_config_index, and every crawl that
\* returns (its read succeeds or finds no directory) returns False.
C3_Idempotent ==
    (Crawled /\ crawl_call.last_read # NoIndex /\ backend_index = crawl_call.last_read) =>
        /\ previous_config_index = crawl_call.prev
        /\ crawl_call.kind \in {"ok", "KeyNotFound"} => crawl_ret = "False"

C3_Witness ==
    /\ Crawled
    /\ crawl_call.kind = "ok"
    /\ crawl_call.last_read # NoIndex
    /\ crawl_call.config_index = crawl_call.last_read
    /\ crawl_ret = "False"
    /\ previous_config_index = crawl_call.prev

\* C4: a crawl whose read times out raises; it returns neither False nor
\* True, whether or not an index is stored.
C4_TimeoutRaises ==
    (Crawled /\ crawl_call.kind = "TimeoutError") => crawl_ret = "raise"

C4_Witness ==
    /\ Crawled
    /\ crawl_call.kind = "TimeoutError"
    /\ crawl_call.prev # NoIndex
    /\ crawl_ret = "raise"

\* C5: a crawl whose read raises KeyNotFound returns False and raises
\* nothing, on the first crawl and on later ones.
C5_KeyNotFoundIsNoChange ==
    (Crawled /\ crawl_call.kind = "KeyNotFound") => crawl_ret = "False"

C5_Witness ==
    /\ Crawled
    /\ crawl_call.kind = "KeyNotFound"
    /\ crawl_call.prev = NoIndex
    /\ crawl_call.last_read = NoIndex
    /\ crawl_ret = "False"

\* C6: when the three reads succeed and the three lists are not all of the
\* same length, get_check_tpls returns None: no list, of any length.
C6_MalformedIsAbsent ==
    (/\ ReadTemplates
     /\ LastReadKind = "ok"
     /\ \/ tpls_call.reads[1].len # tpls_call.reads[2].len
        \/ tpls_call.reads[1].len # tpls_call.reads[3].len) =>
        /\ tpls_ret.absent
        /\ tpls_ret.templates = <<>>

C6_Witness ==
    /\ ReadTemplates
    /\ LastReadKind = "ok"
    /\ tpls_call.reads[1].len = 2
    /\ tpls_call.reads[2].len = 2
    /\ tpls_call.reads[3].len = 1
    /\ tpls_ret.absent

\* C7 as stated: a read raises KeyNotFound or TimeoutError and the image has
\* an entry in AUTO_CONF_IMAGES; then the result is the image's
\* auto-configuration template.
C7_Original ==
    (/\ ReadTemplates
     /\ LastReadKind \in {"KeyNotFound", "TimeoutError"}
     /\ tpls_call.image \in DOMAIN AUTO_CONF_IMAGES) =>
        /\ ~tpls_ret.absent
        /\ tpls_ret.templates =
               <<Traced(CONFIG_FROM_AUTOCONF, get_auto_config(tpls_call.image).tpl)>>

\* C7, amended: a read raises KeyNotFound or TimeoutError, the image has an
\* entry in AUTO_CONF_IMAGES and the class of the mapped check is found; then
\* the result is the one-element list of the image's auto-configuration
\* template, tagged CONFIG_FROM_AUTOCONF when trace_config is set.
C7_FallbackToAutoConfig ==
    (/\ ReadTemplates
     /\ LastReadKind \in {"KeyNotFound", "TimeoutError"}
     /\ tpls_call.image \in DOMAIN AUTO_CONF_IMAGES
     /\ get_check_class_found(AUTO_CONF_IMAGES[tpls_call.image])) =>
        /\ ~tpls_ret.absent
        /\ ~get_auto_config(tpls_call.image).none
        /\ tpls_ret.templates =
               <<Traced(CONFIG_FROM_AUTOCONF, get_auto_config(tpls_call.image).tpl)>>

C7_Witness ==
    /\ ReadTemplates
    /\ LastReadKind = "TimeoutError"
    /\ Len(tpls_call.reads) = 3
    /\ tpls_call.image = "redis"
    /\ tpls_call.trace_config
    /\ tpls_ret.templates =
           <<<<CONFIG_FROM_AUTOCONF, <<"redisdb", "{}", "{\"host\": \"localhost\"}">>>>>>

\* C8: a read fails with another error; then get_check_tpls returns None,
\* _get_auto_config is not called and no read is made after the failing one.
C8_OtherErrorIsAbsent ==
    (ReadTemplates /\ LastReadKind = "OtherError") =>
        /\ tpls_ret.absent
        /\ tpls_ret.lookups = 0
        /\ tpls_ret.reads = Len(tpls_call.reads)

C8_Witness ==
    /\ ReadTemplates
    /\ LastReadKind = "OtherError"
    /\ tpls_call.image = "redis"
    /\ ~get_auto_config(tpls_call.image).none
    /\ tpls_ret.absent
    /\ tpls_ret.lookups = 0

\* C9 as stated: on a StubStore, get_check_tpls returns what it returns with
\* auto_conf=True, whatever the caller passes.
C9_Original ==
    (op = "tpls" /\ store = "stub") =>
        LET forced == get_check_tpls(store, tpls_call.image, TRUE,
                                     tpls_call.trace_config, tpls_call.reads)
        IN  /\ tpls_ret.absent = forced.absent
            /\ tpls_ret.templates = forced.templates

\* C9, amended: on a StubStore, get_check_tpls called with auto_conf=True
\* returns the image's auto-configuration template (None when there is
\* none) without any read; called without it, its first read raises
\* NotImplementedError and it returns None for every image, without calling
\* _get_auto_config.
C9_StubNeedsAutoConfFlag ==
    (op = "tpls" /\ store = "stub") =>
        IF tpls_call.auto_conf
        THEN /\ tpls_ret.reads = 0
             /\ tpls_ret.absent = get_auto_config(tpls_call.image).none
             /\ ~tpls_ret.absent =>
                   tpls_ret.templates =
                       <<Traced(CONFIG_FROM_AUTOCONF, get_auto_config(tpls_call.image).tpl)>>
        ELSE /\ tpls_ret.absent
             /\ tpls_ret.lookups = 0
             /\ tpls_ret.reads = 1

C9_Witness ==
    /\ op = "tpls"
    /\ store = "stub"
    /\ ~tpls_call.auto_conf
    /\ tpls_call.image = "redis"
    /\ ~get_auto_config(tpls_call.image).none
    /\ tpls_ret.absent

\* C10: when the three reads succeed with lists of the same length n,
\* get_check_tpls returns a list of n templates whose i-th is
\* (check_names[i], init_configs[i], instances[i]), tagged
\* CONFIG_FROM_TEMPLATE when trace_config is set.
C10_WellFormedIsZipped ==
    (/\ ReadTemplates
     /\ LastReadKind = "ok"
     /\ tpls_call.reads[1].len = tpls_call.reads[2].len
     /\ tpls_call.reads[1].len = tpls_call.reads[3].len) =>
        LET n == tpls_call.reads[1].len IN
        /\ ~tpls_ret.absent
        /\ Len(tpls_ret.templates) = n
        /\ \A i \in 1..n :
              tpls_ret.templates[i] =
                  Traced(CONFIG_FROM_TEMPLATE,
                         <<backend_array("check_names", n)[i],
                           backend_array("init_configs", n)[i],
                           backend_array("instances", n)[i]>>)

C10_Witness ==
    /\ ReadTemplates
    /\ LastReadKind = "ok"
    /\ tpls_call.trace_config
    /\ ~tpls_ret.absent
    /\ Len(tpls_ret.templates) = 2
    /\ tpls_ret.templates[2] =
           <<CONFIG_FROM_TEMPLATE, <<"check_names[2]", "init_configs[2]", "instances[2]">>>>


\* C11: the image has no entry in AUTO_CONF_IMAGES and the backend holds no
\* templates for it (a read of its directory raises KeyNotFound); then
\* get_check_tpls returns None.
C11_UnknownImageIsAbsent ==
    (/\ ReadTemplates
     /\ LastReadKind = "KeyNotFound"
     /\ tpls_call.image \notin DOMAIN AUTO_CONF_IMAGES) =>
        /\ tpls_ret.absent
        /\ tpls_ret.templates = <<>>

C11_Witness ==
    /\ ReadTemplates
    /\ Len(tpls_call.reads) = 1
    /\ LastReadKind = "KeyNotFound"
    /\ tpls_call.image = "custom"
    /\ tpls_ret.absent
    /\ tpls_ret.lookups = 1


\* C12: get_check_tpls raises nothing: for every image (with a template,
\* with a mapped check whose class is not found, without an entry), every
\* auto_conf and trace_config, every outcome of each read and on either
\* class of store, it returns a list or None.
C12_ResolutionNeverRaises ==
    op = "tpls" =>
        /\ ~tpls_ret.raised
        /\ tpls_ret.absent => tpls_ret.templates = <<>>
        /\ tpls_ret.reads \in 0..3
        /\ tpls_ret.lookups \in 0..1

C12_Witness ==
    /\ ReadTemplates
    /\ LastReadKind = "OtherError"
    /\ Len(tpls_call.reads) = 2
    /\ tpls_call.image = "ghost"
    /\ ~tpls_ret.raised
    /\ tpls_ret.absent


\* C13: previous_config_index is always the index returned by the most
\* recent successful read of the instance (None before the first one), and
\* once set it is None again only after the instance is dropped and a new
\* one constructed.
C13_IndexIsLastRead ==
    /\ [](previous_config_index = last_read)
    /\ [][(previous_config_index # NoIndex /\ op' # "construct")
              => previous_config_index' # NoIndex]_vars
    /\ [][op' = "construct" => previous_config_index' = NoIndex]_vars

C13_Witness ==
    /\ Crawled
    /\ crawl_call.kind = "ok"
    /\ crawl_call.prev # NoIndex
    /\ crawl_call.config_index # crawl_call.prev
    /\ previous_config_index = crawl_call.config_index


\* C14: called with auto_conf=True, get_check_tpls makes no read: it returns
\* the one-element list of the image's auto-configuration template when
\* _get_auto_config gives one and None otherwise, whatever the backend would
\* answer (lists, KeyNotFound, a timeout, another error).
C14_AutoConfOnlyReadsNothing ==
    (op = "tpls" /\ tpls_call.auto_conf) =>
        /\ tpls_ret.reads = 0
        /\ ~tpls_ret.raised
        /\ tpls_ret.absent = get_auto_config(tpls_call.image).none
        /\ tpls_ret.templates =
               IF get_auto_config(tpls_call.image).none THEN <<>>
               ELSE <<Traced(CONFIG_FROM_AUTOCONF, get_auto_config(tpls_call.image).tpl)>>

C14_Witness ==
    /\ op = "tpls"
    /\ store = "backend"
    /\ tpls_call.auto_conf
    /\ tpls_call.reads[1].kind = "OtherError"
    /\ tpls_call.image = "nginx"
    /\ tpls_ret.reads = 0
    /\ tpls_ret.templates =
           <<Traced(CONFIG_FROM_AUTOCONF,
                    <<"nginx", "{\"tag\": \"web\"}", "{\"host\": \"a\", \"port\": \"80\"}">>)>>


\* The values the backend can hold under a key.
BackendValues(key) == { backend_array(key, MaxLen)[i] : i \in 1..MaxLen }

\* The tag and the template of an element of the returned list.
SourceOf(t) == IF tpls_call.trace_config THEN t[1] ELSE "-"
TemplateOf(t) == IF tpls_call.trace_config THEN t[2] ELSE t

AllFromTemplate ==
    \A i \in 1..Len(tpls_ret.templates) :
        LET t == tpls_ret.templates[i] IN
        /\ SourceOf(t) \in {"-", CONFIG_FROM_TEMPLATE}
        /\ TemplateOf(t)[1] \in BackendValues("check_names")
        /\ TemplateOf(t)[2] \in BackendValues("init_configs")
        /\ TemplateOf(t)[3] \in BackendValues("instances")

AllFromAutoConf ==
    \A i \in 1..Len(tpls_ret.templates) :
        LET t == tpls_ret.templates[i] IN
        /\ SourceOf(t) \in {"-", CONFIG_FROM_AUTOCONF}
        /\ TemplateOf(t) = get_auto_config(tpls_call.image).tpl

\* C15: every list get_check_tpls returns is made of backend values only or
\* of the auto-configuration template only; when a read raises KeyNotFound
\* or TimeoutError after earlier reads succeeded, the list returned holds
\* the auto-configuration template alone and none of the values read.
C15_SingleSource ==
    (op = "tpls" /\ ~tpls_ret.absent /\ ~tpls_ret.raised) =>
        /\ AllFromTemplate \/ AllFromAutoConf
        /\ (~tpls_call.auto_conf /\ LastReadKind \in {"KeyNotFound", "TimeoutError"}) =>
               /\ Len(tpls_ret.templates) = 1
               /\ AllFromAutoConf

C15_Witness ==
    /\ ReadTemplates
    /\ Len(tpls_call.reads) = 3
    /\ LastReadKind = "KeyNotFound"
    /\ tpls_call.image = "redis"
    /\ ~tpls_call.trace_config
    /\ tpls_ret.reads = 3
    /\ tpls_ret.templates = <<<<"redisdb", "{}", "{\"host\": \"localhost\"}">>>>


\* C16: a crawl whose read raises KeyNotFound or TimeoutError leaves
\* previous_config_index as it was, and the successful crawl that follows it
\* is compared with the index of the last successful read: it returns True
\* exactly when the index it reads differs from that one, and stores it.
C16_FailedCrawlKeepsBaseline ==
    /\ (Crawled /\ crawl_call.kind \in {"KeyNotFound", "TimeoutError"}) =>
            previous_config_index = crawl_call.prev
    /\ (Crawled /\ crawl_call.kind = "ok" /\ crawl_call.after_failed) =>
            /\ crawl_call.prev = crawl_call.last_read
            /\ (crawl_ret = "True") <=>
                   /\ crawl_call.last_read # NoIndex
                   /\ crawl_call.config_index # crawl_call.last_read
            /\ previous_config_index = crawl_call.config_index

C16_Witness ==
    /\ Crawled
    /\ crawl_call.kind = "ok"
    /\ crawl_call.after_failed
    /\ crawl_call.last_read # NoIndex
    /\ crawl_call.config_index # crawl_call.last_read
    /\ crawl_ret = "True"


\* C17: a call of get_check_tpls, whatever its outcome, leaves
\* previous_config_index as it was; the crawl that follows it returns, for
\* every outcome of its read, what it would have returned without the call,
\* and stores what it would have stored.
C17_ResolutionLeavesIndexAlone ==
    [][op' = "tpls" =>
          /\ previous_config_index' = previous_config_index
          /\ last_read' = last_read
          /\ \A kind \in CrawlReadKinds :
                LET config_index == IF kind = "ok" THEN backend_index' ELSE NoIndex IN
                /\ crawl_config_template_ret(previous_config_index', kind, config_index)
                     = crawl_config_template_ret(previous_config_index, kind, config_index)
                /\ crawl_config_template_index(previous_config_index', kind, config_index)
                     = crawl_config_template_index(previous_config_index, kind, config_index)
      ]_vars

C17_Witness ==
    /\ op = "tpls"
    /\ store = "backend"
    /\ ~tpls_ret.absent
    /\ previous_config_index # NoIndex
    /\ backend_index # previous_config_index
    /\ crawl_config_template_ret(previous_config_index, "ok", backend_index) = "True"

====
